---------------------------- MODULE Spec2Model ----------------------------
(***************************************************************************)
(* Model of streamlit_app.py (GeoJSON Precision Fixer): the coordinate     *)
(* rounder, the ring-orientation fixer, the two auditors and the           *)
(* "Process File" handler that runs them over a GeoDataFrame.              *)
(*                                                                         *)
(* Numbers.  A coordinate is a binary floating-point number.  The model    *)
(* keeps the part of that which the rounder and the precision audit rest   *)
(* on: the representable values form a binary grid (multiples of           *)
(* 2^-FracBits, an ordinate is the integer numerator n of n / 2^FracBits), *)
(* formatting writes the exact value correctly rounded to a decimal        *)
(* string, parsing reads a decimal string to the nearest grid value, and   *)
(* the text rendering of a number is the shortest decimal string that      *)
(* reads back as it.  Decimal strings are records of digits, so a          *)
(* format/parse round trip is computed, never assumed.  The arithmetic of  *)
(* the shoelace sum is exact.                                              *)
(*                                                                         *)
(* Geometries.  Every geometry is a record [tag, coords, geoms]:           *)
(*   Point            coords = << <<c>> >>   (<< >> when empty)            *)
(*   LineString       coords = << line >>                                  *)
(*   Polygon          coords = << exterior, hole, ... >> (<< >> when empty)*)
(*   Multi*, GeometryCollection   geoms = the members                      *)
(*   Null             the missing geometry (None)                          *)
(* A coordinate tuple c is <<x, y>> or <<x, y, z>>.                        *)
(***************************************************************************)
EXTENDS Integers, Sequences, FiniteSets

(***************************************************************************)
(* Bounds of the model and constants of the program.                       *)
(***************************************************************************)
FracBits == 4        \* the float grid is the multiples of 2^-FracBits
MaxAbsOrd == 17      \* point ordinates range over -MaxAbsOrd..MaxAbsOrd
GridMax == 2         \* ring vertices lie on the grid (0..GridMax) x (0..GridMax)
MaxRingPts == 4      \* a ring has 3..MaxRingPts vertices before its closing one
MaxRecords == 2      \* records of a collection
PrecMin == 1         \* slider min_value
PrecMax == 15        \* slider max_value
PrecDefault == 6     \* slider value, and the default of both helpers

RECURSIVE Pow(_, _)
Pow(b, k) == IF k = 0 THEN 1 ELSE b * Pow(b, k - 1)

Abs(n) == IF n < 0 THEN -n ELSE n
Sign(n) == IF n > 0 THEN 1 ELSE IF n < 0 THEN -1 ELSE 0

(***************************************************************************)
(* Decimal strings: [neg, int, frac] with frac the fractional digits.      *)
(***************************************************************************)
\* the k decimal digits of m (0 <= m < 10^k), most significant first
Digits(m, k) == [i \in 1..k |-> (m \div Pow(10, k - i)) % 10]

\* round-half-even of E / 10^d to an integer
RoundHalfEven(E, d) ==
    LET unit == Pow(10, d)
        q == E \div unit
        r == E % unit
    IN  IF 2 * r > unit \/ (2 * r = unit /\ q % 2 = 1) THEN q + 1 ELSE q

\* f"{x:.{precision}f}": the exact value of x, correctly rounded to
\* `precision` fractional digits.  The exact value of n / 2^FracBits has
\* FracBits decimal digits: |n| * 5^FracBits / 10^FracBits.
FormatFixed(n, P) ==
    LET E == Abs(n) * Pow(5, FracBits)
    IN  IF P >= FracBits
        THEN [neg |-> n < 0,
              int |-> E \div Pow(10, FracBits),
              frac |-> Digits(E % Pow(10, FracBits), FracBits)
                          \o [i \in 1..(P - FracBits) |-> 0]]
        ELSE LET m == RoundHalfEven(E, FracBits - P)
             IN  [neg |-> n < 0,
                  int |-> m \div Pow(10, P),
                  frac |-> Digits(m % Pow(10, P), P)]

\* the first k fractional digits of s as an integer (zero padded)
RECURSIVE FracHead(_, _)
FracHead(s, k) ==
    IF k = 0 THEN 0
    ELSE 10 * FracHead(s, k - 1) + (IF k <= Len(s.frac) THEN s.frac[k] ELSE 0)

\* float(text): the grid value nearest to the decimal string, ties to even.
\* The midpoints of the grid have FracBits + 1 decimal digits, so the string
\* is compared on its first FracBits + 1 digits, the rest only breaking a tie.
ParseFloatTruncating(s) ==
    LET K == FracBits + 1
        V == s.int * Pow(10, K) + FracHead(s, K)
        q == (V * Pow(2, FracBits)) \div Pow(10, K)
    IN  IF s.neg THEN -q ELSE q

ParseFloat(s) ==
    LET K == FracBits + 1
        V == s.int * Pow(10, K) + FracHead(s, K)
        sticky == \E i \in DOMAIN s.frac : i > K /\ s.frac[i] # 0
        q == (V * Pow(2, FracBits)) \div Pow(10, K)
        mid == (2 * q + 1) * Pow(5, K)
        up == \/ V > mid
              \/ V = mid /\ sticky
              \/ V = mid /\ ~sticky /\ q % 2 = 1
        mag == IF up THEN q + 1 ELSE q
    IN  IF s.neg THEN -mag ELSE mag

\* The precisions a caller can hand round_coordinates: the slider's range
\* and one step beyond it on either side
PrecisionInputs == (PrecMin - 1)..(PrecMax + 1)

\* The number of fractional digits in the text rendering of n: str(geometry)
\* writes each ordinate as the shortest decimal string that reads back as
\* the same number, so 0.125 prints "0.125" and 1.0 prints "1".
RECURSIVE ShortestFrom(_, _)
ShortestFrom(n, k) ==
    IF k >= FracBits \/ ParseFloat(FormatFixed(n, k)) = n THEN k
    ELSE ShortestFrom(n, k + 1)

\* Both conversions are tabulated once over the ordinates (and precisions)
\* of the model: entry n - OrdMin + 1 of a row is the value at ordinate n.
\* (rounding moves an ordinate no further than the next whole number)
OrdMax == (MaxAbsOrd \div Pow(2, FracBits) + 1) * Pow(2, FracBits)
OrdMin == -OrdMax

\* (appending the empty sequence makes each table a sequence of values)
WktFracDigitsTable ==
    [i \in 1..(OrdMax - OrdMin + 1) |-> ShortestFrom(OrdMin + i - 1, 0)] \o << >>

WktFracDigits(n) == WktFracDigitsTable[n - OrdMin + 1]

\* row P - PrecMin + 2 holds float(f"{x:.{P}f}") for P = PrecMin - 1 .. PrecMax + 1
FormatThenParseRow(P) ==
    [i \in 1..(OrdMax - OrdMin + 1) |->
        ParseFloat(FormatFixed(OrdMin + i - 1, P))] \o << >>

FormatThenParseTable ==
    [r \in 1..(PrecMax - PrecMin + 3) |-> FormatThenParseRow(PrecMin + r - 2)]
        \o << >>

(***************************************************************************)
(* Geometries.                                                             *)
(***************************************************************************)
Geom(tag, coords, geoms) == [tag |-> tag, coords |-> coords, geoms |-> geoms]

NullGeom == Geom("Null", << >>, << >>)
Point(c) == Geom("Point", << <<c>> >>, << >>)
LineString(line) == Geom("LineString", <<line>>, << >>)
Polygon(rings) == Geom("Polygon", rings, << >>)
EmptyPolygon == Polygon(<< >>)
MultiPoint(members) == Geom("MultiPoint", << >>, members)
MultiLineString(members) == Geom("MultiLineString", << >>, members)
GeometryCollection(members) == Geom("GeometryCollection", << >>, members)

\* geom.is_empty: no coordinates at all, in the geometry or in its members
is_empty_part(g) ==
    /\ g.coords = << >>
    /\ \A j \in DOMAIN g.geoms : g.geoms[j].coords = << >>

is_empty(g) ==
    /\ g.coords = << >>
    /\ \A i \in DOMAIN g.geoms : is_empty_part(g.geoms[i])

\* MultiPolygon(polygons): the constructor leaves empty polygons out of the
\* members it is given
NonEmptyMember(p) == p.coords # << >>
MultiPolygon(members) ==
    Geom("MultiPolygon", << >>, SelectSeq(members, NonEmptyMember))

\* a MultiPolygon as the loader delivers it, members as read
LoadedMultiPolygon(members) == Geom("MultiPolygon", << >>, members)

Reverse(s) == [i \in 1..Len(s) |-> s[Len(s) + 1 - i]]

(***************************************************************************)
(* round_coordinates                                                       *)
(***************************************************************************)
\* float(f"{x:.{precision}f}")
RoundOrdinateIdentity(n, P) == n

RoundOrdinate(n, P) ==
    FormatThenParseTable[P - PrecMin + 2][n - OrdMin + 1]

\* round_coords(x, y, z=None): two ordinates in, two out; three in, three out
round_coords(c, P) ==
    IF Len(c) = 3
    THEN <<RoundOrdinate(c[1], P), RoundOrdinate(c[2], P),
           RoundOrdinate(c[3], P)>>
    ELSE <<RoundOrdinate(c[1], P), RoundOrdinate(c[2], P)>>

\* shapely.ops.transform on a Point, LineString or Polygon: the function is
\* applied to every coordinate tuple of every line or ring, and the geometry
\* is rebuilt with the same type; an empty geometry is returned as it is
transform_single(g, P) ==
    IF g.coords = << >> THEN g
    ELSE [g EXCEPT !.coords =
            [r \in DOMAIN g.coords |->
                [i \in DOMAIN g.coords[r] |->
                    round_coords(g.coords[r][i], P)]]]

\* ... and on a multi-part geometry: type(geom)([transform(func, part) ...]),
\* where MultiPolygon(...) leaves out the empty polygons
Rebuild(g, parts) ==
    IF g.tag = "MultiPolygon" THEN MultiPolygon(parts)
    ELSE [g EXCEPT !.geoms = parts]

transform_part(g, P) ==
    IF is_empty_part(g) THEN g
    ELSE IF g.geoms = << >> THEN transform_single(g, P)
    ELSE Rebuild(g, [j \in DOMAIN g.geoms |->
                          transform_single(g.geoms[j], P)])

transform(g, P) ==
    IF is_empty(g) THEN g
    ELSE IF g.geoms = << >> THEN transform_single(g, P)
    ELSE Rebuild(g, [i \in DOMAIN g.geoms |->
                          transform_part(g.geoms[i], P)])

round_coordinates(g, P) ==
    IF g.tag = "Null" THEN NullGeom ELSE transform(g, P)

(***************************************************************************)
(* fix_cw_to_ccw                                                           *)
(***************************************************************************)
X(ring, i) == ring[i][1]
Y(ring, i) == ring[i][2]

\* shapely's signed_area(ring), doubled: the shoelace sum
\*   sum(xs[i] * (ys[i + 1] - ys[i - 1]) for i in range(1, len(coords)))
\* over the ring with its second vertex appended; z is ignored
RECURSIVE ShoelaceFrom(_, _)
ShoelaceFrom(ring, i) ==
    IF i > Len(ring) THEN 0
    ELSE LET nextY == IF i = Len(ring) THEN Y(ring, 2) ELSE Y(ring, i + 1)
         IN  X(ring, i) * (nextY - Y(ring, i - 1)) + ShoelaceFrom(ring, i + 1)

signed_area(ring) == ShoelaceFrom(ring, 2)

\* signed_area indexes the second vertex of the ring: an empty polygon has
\* none, and the call raises
orient_raises(poly) == poly.coords = << >>

\* orient(polygon, sign=1.0): the exterior is kept when its signed area is
\* >= 0 and reversed otherwise; a hole is kept when its signed area is <= 0
\* and reversed otherwise
orient_always_reverse(poly) ==
    [poly EXCEPT !.coords = [r \in DOMAIN poly.coords |-> Reverse(poly.coords[r])]]

orient_drop_holes(poly) ==
    [poly EXCEPT !.coords =
        <<IF signed_area(poly.coords[1]) >= 0
          THEN poly.coords[1] ELSE Reverse(poly.coords[1])>>]

orient(poly) ==
    [poly EXCEPT !.coords =
        [r \in DOMAIN poly.coords |->
            IF r = 1
            THEN IF signed_area(poly.coords[r]) >= 0
                 THEN poly.coords[r] ELSE Reverse(poly.coords[r])
            ELSE IF signed_area(poly.coords[r]) <= 0
                 THEN poly.coords[r] ELSE Reverse(poly.coords[r])]]

\* fix_cw_to_ccw(geom): the geometry returned, and whether the except
\* branch ran (st.error was called)
FixResult(g, err) == [geom |-> g, raised |-> err]

fix_cw_to_ccw_recursive(g) ==
    IF g.tag = "Null" \/ is_empty(g) THEN FixResult(g, FALSE)
    ELSE IF g.tag = "Polygon" THEN FixResult(orient(g), FALSE)
    ELSE IF g.tag \in {"MultiPolygon", "GeometryCollection"}
    THEN FixResult([g EXCEPT !.geoms =
                      [i \in DOMAIN g.geoms |->
                          IF g.geoms[i].tag = "Polygon"
                          THEN orient(g.geoms[i])
                          ELSE [g.geoms[i] EXCEPT !.geoms =
                                  [j \in DOMAIN g.geoms[i].geoms |->
                                      IF g.geoms[i].geoms[j].tag = "Polygon"
                                      THEN orient(g.geoms[i].geoms[j])
                                      ELSE g.geoms[i].geoms[j]]]]],
                   FALSE)
    ELSE FixResult(g, FALSE)

fix_cw_to_ccw_drops_on_error(g) ==
    IF g.tag = "Null" \/ is_empty(g) THEN FixResult(g, FALSE)
    ELSE IF g.tag = "Polygon" THEN FixResult(orient(g), FALSE)
    ELSE IF g.tag = "MultiPolygon"
    THEN IF \E i \in DOMAIN g.geoms : orient_raises(g.geoms[i])
         THEN FixResult(NullGeom, TRUE)
         ELSE FixResult(MultiPolygon([i \in DOMAIN g.geoms |->
                                         orient(g.geoms[i])]), FALSE)
    ELSE FixResult(g, FALSE)

fix_cw_to_ccw(g) ==
    IF g.tag = "Null" \/ is_empty(g) THEN FixResult(g, FALSE)
    ELSE IF g.tag = "Polygon" THEN FixResult(orient(g), FALSE)
    ELSE IF g.tag = "MultiPolygon"
    THEN IF \E i \in DOMAIN g.geoms : orient_raises(g.geoms[i])
         THEN FixResult(g, TRUE)
         ELSE FixResult(MultiPolygon([i \in DOMAIN g.geoms |->
                                         orient(g.geoms[i])]), FALSE)
    ELSE FixResult(g, FALSE)

(***************************************************************************)
(* check_coordinate_precision                                              *)
(***************************************************************************)
\* every ordinate written in str(geometry), in any order
ordinates_single(g) ==
    {g.coords[r][i][k] : <<r, i, k>> \in
        {t \in (DOMAIN g.coords) \X (1..(MaxRingPts + 1)) \X (1..3) :
            /\ t[2] \in DOMAIN g.coords[t[1]]
            /\ t[3] \in DOMAIN g.coords[t[1]][t[2]]}}

ordinates_part(g) ==
    ordinates_single(g)
        \cup UNION {ordinates_single(g.geoms[j]) : j \in DOMAIN g.geoms}

ordinates(g) ==
    ordinates_single(g)
        \cup UNION {ordinates_part(g.geoms[i]) : i \in DOMAIN g.geoms}

\* re.findall(r"(-?\d+\.\d+)", str(geometry)): an ordinate is a token when
\* its text has a decimal point; the audit asks whether some token has more
\* than max_decimals digits after it
check_coordinate_precision(g, max_decimals) ==
    IF g.tag = "Null" THEN FALSE
    ELSE \E n \in ordinates(g) :
            WktFracDigits(n) >= 1 /\ WktFracDigits(n) > max_decimals

(***************************************************************************)
(* check_orientation_stats                                                 *)
(***************************************************************************)
\* the orientation index of c relative to the directed segment a -> b:
\* 1 counterclockwise (left), -1 clockwise, 0 collinear
OrientationIndex(a, b, c) ==
    Sign((b[1] - a[1]) * (c[2] - a[2]) - (b[2] - a[2]) * (c[1] - a[1]))

\* is_ccw scans the ring for the last rising segment that ends at the top:
\* the index of its upper end (1 when the ring is flat)
RECURSIVE UpHiFrom(_, _, _)
UpHiFrom(ring, i, hi) ==
    IF i > Len(ring) THEN hi
    ELSE UpHiFrom(ring, i + 1,
                  IF Y(ring, i) > Y(ring, i - 1) /\ Y(ring, i) >= Y(ring, hi)
                  THEN i ELSE hi)

\* ... then walks on from there, around the ring without its closing
\* vertex, to the first vertex below the top
RingNext(ring, i) == (i % (Len(ring) - 1)) + 1
RingPrev(ring, i) == IF i = 1 THEN Len(ring) - 1 ELSE i - 1

RECURSIVE DownLowFrom(_, _, _)
DownLowFrom(ring, i, hi) ==
    IF i # hi /\ Y(ring, i) = Y(ring, hi)
    THEN DownLowFrom(ring, RingNext(ring, i), hi)
    ELSE i

\* shapely.is_ccw(ring): the orientation of the cap at the top of the ring.
\* A pointed cap is counterclockwise when its three vertices turn left; a
\* flat cap is counterclockwise when it runs right to left.  A ring with
\* fewer than three vertices before its closing one, a flat ring and a cap
\* that folds back on itself are not counterclockwise.
is_ccw(ring) ==
    IF Len(ring) < 4 THEN FALSE
    ELSE LET iUpHi == UpHiFrom(ring, 2, 1)
         IN  IF iUpHi = 1 THEN FALSE
             ELSE LET upHiPt == ring[iUpHi]
                      upLowPt == ring[iUpHi - 1]
                      iDownLow == DownLowFrom(ring, RingNext(ring, iUpHi), iUpHi)
                      downLowPt == ring[iDownLow]
                      downHiPt == ring[RingPrev(ring, iDownLow)]
                      Same(a, b) == a[1] = b[1] /\ a[2] = b[2]
                  IN  IF Same(upHiPt, downHiPt)
                      THEN IF \/ Same(upLowPt, upHiPt)
                              \/ Same(downLowPt, upHiPt)
                              \/ Same(upLowPt, downLowPt)
                           THEN FALSE
                           ELSE OrientationIndex(upLowPt, upHiPt, downLowPt) = 1
                      ELSE downHiPt[1] - upHiPt[1] < 0

\* geom.exterior
exterior(poly) == IF poly.coords = << >> THEN << >> ELSE poly.coords[1]

\* poly.area, doubled: the area enclosed by the exterior less the areas of
\* the holes, each taken unsigned
RECURSIVE HolesAreaFrom(_, _)
HolesAreaFrom(poly, r) ==
    IF r > Len(poly.coords) THEN 0
    ELSE Abs(signed_area(poly.coords[r])) + HolesAreaFrom(poly, r + 1)

area(poly) ==
    IF poly.coords = << >> THEN 0
    ELSE Abs(signed_area(poly.coords[1])) - HolesAreaFrom(poly, 2)

\* max(geom.geoms, key=lambda p: p.area): the first member of largest area
RECURSIVE MaxByAreaFrom(_, _, _)
MaxByAreaFrom(members, i, best) ==
    IF i > Len(members) THEN best
    ELSE MaxByAreaFrom(members, i + 1,
                       IF area(members[i]) > area(members[best]) THEN i ELSE best)

largest_poly(g) == g.geoms[MaxByAreaFrom(g.geoms, 2, 1)]

\* the class one geometry adds to: "ccw", "cw" or "other"
classify(g) ==
    IF g.tag = "Polygon"
    THEN IF is_ccw(exterior(g)) THEN "ccw" ELSE "cw"
    ELSE IF g.tag = "MultiPolygon"
    THEN IF is_ccw(exterior(largest_poly(g))) THEN "ccw" ELSE "cw"
    ELSE "other"

\* check_orientation_stats(gdf) over the geometry column
check_orientation_stats(column) ==
    [ccw |-> Cardinality({i \in DOMAIN column : classify(column[i]) = "ccw"}),
     cw |-> Cardinality({i \in DOMAIN column : classify(column[i]) = "cw"}),
     other |-> Cardinality({i \in DOMAIN column : classify(column[i]) = "other"})]

(***************************************************************************)
(* The inputs the operations are applied to.                               *)
(***************************************************************************)
GridPts == (0..GridMax) \X (0..GridMax)

\* the closed rings with k distinct vertices from S
RingsOver(S, k) ==
    {f \o <<f[1]>> : f \in {g \in [1..k -> S] :
                              \A i, j \in 1..k : i # j => g[i] # g[j]}}

\* triangles on the grid, and rings of 4..MaxRingPts vertices on six of its
\* points, among them rings that cross or touch themselves
QuadPts == {<<0, 0>>, <<1, 0>>, <<0, 1>>, <<0, 2>>, <<2, 1>>, <<2, 2>>}
QuadRings == UNION {RingsOver(QuadPts, k) : k \in 4..MaxRingPts}
Rings == RingsOver(GridPts, 3) \cup QuadRings
CorePts == {<<0, 0>>, <<1, 0>>, <<0, 1>>, <<GridMax, 0>>, <<0, GridMax>>}
CoreRings == RingsOver(CorePts, 3)
HoleRings == RingsOver({<<0, 0>>, <<1, 0>>, <<0, 1>>}, 3)

\* a ring with a z ordinate on every vertex
WithZ(ring) == [i \in DOMAIN ring |-> <<ring[i][1], ring[i][2], 1>>]

PointOrds == (-MaxAbsOrd)..MaxAbsOrd
Points == {Point(<<a, b>>) : a \in PointOrds, b \in PointOrds}
Points3D == {Point(<<c[1], c[2], z>>) : c \in GridPts, z \in 0..GridMax}
LineStrings == {LineString(<<a, b>>) : a \in GridPts, b \in GridPts}
LineStrings3D == {LineString(WithZ(r)) : r \in HoleRings}
Polygons == {Polygon(<<r>>) : r \in Rings}
Polygons3D == {Polygon(<<WithZ(r)>>) : r \in CoreRings}
PolygonsWithHole == {Polygon(<<r, h>>) : r \in CoreRings, h \in HoleRings}
CorePolygons == {Polygon(<<r>>) : r \in CoreRings}
MultiPoints == {MultiPoint(<<Point(a), Point(b)>>) : a \in GridPts, b \in GridPts}
MultiLineStrings ==
    {MultiLineString(<<LineString(<<a, b>>), LineString(<<b, a>>)>>) :
        a \in CorePts, b \in CorePts}
MultiPolygons ==
    {MultiPolygon(<<p>>) : p \in PolygonsWithHole}
        \cup {MultiPolygon(<<p, q>>) : p \in CorePolygons, q \in CorePolygons}
        \cup {MultiPolygon(<<Polygon(<<r>>),
                              Polygon(<< <<<<0, 0>>, <<1, 0>>, <<0, 1>>, <<0, 0>>>> >>)>>) :
                 r \in QuadRings}
GeometryCollections ==
    {GeometryCollection(<<p, Point(<<1, 1>>)>>) : p \in CorePolygons}
        \cup {GeometryCollection(<<LineString(<<<<0, 1>>, <<1, 0>>>>),
                                   MultiPolygon(<<p>>)>>) : p \in CorePolygons}

Geometries ==
    {NullGeom, EmptyPolygon}
        \cup Points \cup Points3D \cup LineStrings \cup LineStrings3D
        \cup Polygons \cup Polygons3D \cup PolygonsWithHole
        \cup MultiPoints \cup MultiLineStrings \cup MultiPolygons
        \cup GeometryCollections

(***************************************************************************)
(* State.                                                                  *)
(***************************************************************************)
VARIABLES
    geom,        \* the geometry an operation is applied to
    op,          \* "start", "rounded", "rounded2", "fixed", "fixed2"
    prec,        \* the precision round_coordinates was called with
    res,         \* the result of the operation
    res2,        \* the result of the operation applied to res
    raised,      \* whether fix_cw_to_ccw reported an error
    upload,      \* the uploaded file as load_file reads it: [records, crs]
    precision,   \* the slider
    fix_orientation,  \* the checkbox
    pc,          \* the statement of the Process File handler reached
    gdf,         \* the GeoDataFrame: [records, crs]
    warnings,    \* the number of st.error calls made by fix_cw_to_ccw
    high_precision_count, orig_orientation,
    new_high_precision, new_orientation

fnVars == <<geom, op, prec, res, res2, raised>>
appVars == <<upload, precision, fix_orientation, pc, gdf, warnings,
             high_precision_count, orig_orientation,
             new_high_precision, new_orientation>>
vars == <<geom, op, prec, res, res2, raised,
          upload, precision, fix_orientation, pc, gdf, warnings,
          high_precision_count, orig_orientation,
          new_high_precision, new_orientation>>

NoStats == [ccw |-> 0, cw |-> 0, other |-> 0]
NoFrame == [records |-> << >>, crs |-> "Not Set"]

FnIdle ==
    /\ geom = NullGeom /\ op = "idle" /\ prec = PrecDefault
    /\ res = NullGeom /\ res2 = NullGeom /\ raised = FALSE

AppIdle ==
    /\ upload = NoFrame /\ precision = PrecDefault /\ fix_orientation = TRUE
    /\ pc = "idle" /\ gdf = NoFrame /\ warnings = 0
    /\ high_precision_count = 0 /\ orig_orientation = NoStats
    /\ new_high_precision = 0 /\ new_orientation = NoStats

(***************************************************************************)
(* SpecFn: the two transforms applied to one geometry, once and twice.     *)
(***************************************************************************)
InitFn ==
    /\ geom \in Geometries
    /\ op = "start" /\ prec = PrecDefault
    /\ res = NullGeom /\ res2 = NullGeom /\ raised = FALSE
    /\ AppIdle

\* res = round_coordinates(geom, P)
Round(P) ==
    /\ op = "start"
    /\ res' = round_coordinates(geom, P)
    /\ prec' = P
    /\ op' = "rounded"
    /\ UNCHANGED <<geom, res2, raised>>
    /\ UNCHANGED appVars

\* res2 = round_coordinates(res, prec)
RoundAgain ==
    /\ op = "rounded"
    /\ res2' = round_coordinates(res, prec)
    /\ op' = "rounded2"
    /\ UNCHANGED <<geom, prec, res, raised>>
    /\ UNCHANGED appVars

\* res = fix_cw_to_ccw(geom)
Fix ==
    /\ op = "start"
    /\ res' = fix_cw_to_ccw(geom).geom
    /\ raised' = fix_cw_to_ccw(geom).raised
    /\ op' = "fixed"
    /\ UNCHANGED <<geom, prec, res2>>
    /\ UNCHANGED appVars

\* res2 = fix_cw_to_ccw(res)
FixAgain ==
    /\ op = "fixed"
    /\ res2' = fix_cw_to_ccw(res).geom
    /\ raised' = (raised \/ fix_cw_to_ccw(res).raised)
    /\ op' = "fixed2"
    /\ UNCHANGED <<geom, prec, res>>
    /\ UNCHANGED appVars

NextFn ==
    \/ \E P \in PrecisionInputs : Round(P)
    \/ RoundAgain
    \/ Fix
    \/ FixAgain

SpecFn == InitFn /\ [][NextFn]_vars

(***************************************************************************)
(* Spec: the sidebar and the Process File handler.                         *)
(***************************************************************************)
\* The geometries an uploaded file may hold: a missing geometry, a point
\* with more digits than one decimal place holds, a clockwise square, a
\* multipolygon whose small member is clockwise and whose large member has a
\* hole, a multipolygon read with an empty member, and a collection holding
\* a clockwise triangle and a line.
CwSquare ==
    Polygon(<< <<<<0, 0>>, <<0, 2>>, <<2, 2>>, <<2, 0>>, <<0, 0>>>> >>)
CcwTriangleWithHole ==
    Polygon(<< <<<<0, 0>>, <<2, 0>>, <<0, 2>>, <<0, 0>>>>,
               <<<<0, 0>>, <<1, 0>>, <<0, 1>>, <<0, 0>>>> >>)
SmallCwTriangle ==
    Polygon(<< <<<<0, 0>>, <<0, 1>>, <<1, 0>>, <<0, 0>>>> >>)
SampleGeometries ==
    << NullGeom,
       Point(<<1, -7>>),
       CwSquare,
       MultiPolygon(<<SmallCwTriangle, CcwTriangleWithHole>>),
       LoadedMultiPolygon(<<EmptyPolygon, SmallCwTriangle>>),
       GeometryCollection(<<SmallCwTriangle,
                            LineString(<<<<0, 1>>, <<3, 4>>>>)>>) >>

Attributes == {[name |-> "a"], [name |-> "b"]}
CrsTags == {"EPSG:4326", "Not Set"}

Record(attrs, g) == [attrs |-> attrs, geometry |-> g]

\* the files with n records
FramesOf(n) ==
    {[records |-> [i \in 1..n |-> Record(a[i], SampleGeometries[k[i]])],
      crs |-> c] :
        a \in [1..n -> Attributes],
        k \in [1..n -> 1..Len(SampleGeometries)],
        c \in CrsTags}

Frames == UNION {FramesOf(n) : n \in 0..MaxRecords}

GeometryColumn(frame) ==
    [i \in DOMAIN frame.records |-> frame.records[i].geometry]

\* gdf['geometry'] = column
SetGeometryColumn(frame, column) ==
    [frame EXCEPT !.records =
        [i \in DOMAIN frame.records |->
            [frame.records[i] EXCEPT !.geometry = column[i]]]]

\* gdf['geometry'].apply(lambda g: check_coordinate_precision(g, precision)).sum()
count_high_precision(frame, P) ==
    Cardinality({i \in DOMAIN frame.records :
                    check_coordinate_precision(frame.records[i].geometry, P)})

\* gdf['geometry'] = gdf['geometry'].apply(lambda g: round_coordinates(g, precision))
apply_round_dropna(frame, P) ==
    [frame EXCEPT !.records =
        SelectSeq([i \in DOMAIN frame.records |->
                      [frame.records[i] EXCEPT
                          !.geometry = round_coordinates(@, P)]],
                  LAMBDA r : r.geometry.tag # "Null")]

apply_round(frame, P) ==
    SetGeometryColumn(frame,
        [i \in DOMAIN frame.records |->
            round_coordinates(frame.records[i].geometry, P)])

\* gdf['geometry'] = gdf['geometry'].apply(fix_cw_to_ccw)
apply_fix(frame) ==
    SetGeometryColumn(frame,
        [i \in DOMAIN frame.records |->
            fix_cw_to_ccw(frame.records[i].geometry).geom])

\* the st.error calls that apply makes
count_fix_errors(frame) ==
    Cardinality({i \in DOMAIN frame.records :
                    fix_cw_to_ccw(frame.records[i].geometry).raised})

Init ==
    /\ upload \in Frames
    /\ precision = PrecDefault
    /\ fix_orientation = TRUE
    /\ pc = "sidebar"
    /\ gdf = NoFrame
    /\ warnings = 0
    /\ high_precision_count = 0 /\ orig_orientation = NoStats
    /\ new_high_precision = 0 /\ new_orientation = NoStats
    /\ FnIdle

appRest == <<upload, gdf, warnings, high_precision_count, orig_orientation,
             new_high_precision, new_orientation>>

\* st.sidebar.slider("Decimal Precision", min_value=1, max_value=15, value=6)
\* the widget takes a value only between min_value and max_value
SetPrecisionUnbounded(v) ==
    /\ pc = "sidebar"
    /\ v # precision
    /\ precision' = v
    /\ UNCHANGED <<fix_orientation, pc>>
    /\ UNCHANGED appRest
    /\ UNCHANGED fnVars

SetPrecision(v) ==
    /\ pc = "sidebar"
    /\ PrecMin <= v /\ v <= PrecMax
    /\ v # precision
    /\ precision' = v
    /\ UNCHANGED <<fix_orientation, pc>>
    /\ UNCHANGED appRest
    /\ UNCHANGED fnVars

\* st.sidebar.checkbox("Fix Polygon Orientation", value=True)
SetFixOrientation ==
    /\ pc = "sidebar"
    /\ fix_orientation' = ~fix_orientation
    /\ UNCHANGED <<precision, pc>>
    /\ UNCHANGED appRest
    /\ UNCHANGED fnVars

\* the button: gdf = load_file(...)
ProcessFile ==
    /\ pc = "sidebar"
    /\ gdf' = upload
    /\ pc' = "loaded"
    /\ UNCHANGED <<upload, precision, fix_orientation, warnings,
                   high_precision_count, orig_orientation,
                   new_high_precision, new_orientation>>
    /\ UNCHANGED fnVars

\* "Original Data Analysis": the precision count, and the orientation
\* tally when orientation is to be fixed
AnalyseOriginal ==
    /\ pc = "loaded"
    /\ high_precision_count' = count_high_precision(gdf, precision)
    /\ orig_orientation' = IF fix_orientation
                           THEN check_orientation_stats(GeometryColumn(gdf))
                           ELSE orig_orientation
    /\ pc' = "analysed"
    /\ UNCHANGED <<upload, precision, fix_orientation, gdf, warnings,
                   new_high_precision, new_orientation>>
    /\ UNCHANGED fnVars

\* "Round coordinates"
RoundColumn ==
    /\ pc = "analysed"
    /\ gdf' = apply_round(gdf, precision)
    /\ pc' = "rounded"
    /\ UNCHANGED <<upload, precision, fix_orientation, warnings,
                   high_precision_count, orig_orientation,
                   new_high_precision, new_orientation>>
    /\ UNCHANGED fnVars

\* "Fix orientation": if fix_orientation: ...
FixColumn ==
    /\ pc = "rounded"
    /\ IF fix_orientation
       THEN /\ gdf' = apply_fix(gdf)
            /\ warnings' = warnings + count_fix_errors(gdf)
       ELSE UNCHANGED <<gdf, warnings>>
    /\ pc' = "fixed"
    /\ UNCHANGED <<upload, precision, fix_orientation,
                   high_precision_count, orig_orientation,
                   new_high_precision, new_orientation>>
    /\ UNCHANGED fnVars

\* "Results": the precision count again, and the orientation tally again
ShowResults ==
    /\ pc = "fixed"
    /\ new_high_precision' = count_high_precision(gdf, precision)
    /\ new_orientation' = IF fix_orientation
                          THEN check_orientation_stats(GeometryColumn(gdf))
                          ELSE new_orientation
    /\ pc' = "done"
    /\ UNCHANGED <<upload, precision, fix_orientation, gdf, warnings,
                   high_precision_count, orig_orientation>>
    /\ UNCHANGED fnVars

Next ==
    \/ \E v \in PrecisionInputs : SetPrecision(v)
    \/ SetFixOrientation
    \/ ProcessFile
    \/ AnalyseOriginal
    \/ RoundColumn
    \/ FixColumn
    \/ ShowResults

Spec == Init /\ [][Next]_vars

(***************************************************************************)
(* SpecFix: the orientation step on a column as loaded, between its two    *)
(* audits.                                                                 *)
(***************************************************************************)
InitFix ==
    /\ upload \in Frames
    /\ precision = PrecDefault
    /\ fix_orientation = TRUE
    /\ pc = "fix_loaded"
    /\ gdf = upload
    /\ warnings = 0
    /\ high_precision_count = 0 /\ orig_orientation = NoStats
    /\ new_high_precision = 0 /\ new_orientation = NoStats
    /\ FnIdle

\* orig_orientation = check_orientation_stats(gdf)
TallyBefore ==
    /\ pc = "fix_loaded"
    /\ orig_orientation' = check_orientation_stats(GeometryColumn(gdf))
    /\ pc' = "fix_tallied"
    /\ UNCHANGED <<upload, precision, fix_orientation, gdf, warnings,
                   high_precision_count, new_high_precision, new_orientation>>
    /\ UNCHANGED fnVars

\* gdf['geometry'] = gdf['geometry'].apply(fix_cw_to_ccw)
FixLoadedColumn ==
    /\ pc = "fix_tallied"
    /\ gdf' = apply_fix(gdf)
    /\ warnings' = warnings + count_fix_errors(gdf)
    /\ pc' = "fix_applied"
    /\ UNCHANGED <<upload, precision, fix_orientation,
                   high_precision_count, orig_orientation,
                   new_high_precision, new_orientation>>
    /\ UNCHANGED fnVars

\* new_orientation = check_orientation_stats(gdf)
TallyAfter ==
    /\ pc = "fix_applied"
    /\ new_orientation' = check_orientation_stats(GeometryColumn(gdf))
    /\ pc' = "fix_done"
    /\ UNCHANGED <<upload, precision, fix_orientation, gdf, warnings,
                   high_precision_count, orig_orientation, new_high_precision>>
    /\ UNCHANGED fnVars

NextFix == TallyBefore \/ FixLoadedColumn \/ TallyAfter

SpecFix == InitFix /\ [][NextFix]_vars

(***************************************************************************)
(* Properties of round_coordinates and fix_cw_to_ccw (SpecFn).             *)
(***************************************************************************)
InRange(v) == PrecMin <= v /\ v <= PrecMax

\* C1: after round_coordinates(G, P) with P in 1..15, for G of any variant
\* (the missing geometry included), check_coordinate_precision(result, P) is
\* false: no ordinate of the text rendering has more than P fractional digits.
PrecisionPostcondition ==
    (op = "rounded" /\ InRange(prec)) => ~check_coordinate_precision(res, prec)

\* a geometry that failed the audit before the rounding changed it
PrecisionPostconditionWitness ==
    /\ op = "rounded" /\ InRange(prec)
    /\ check_coordinate_precision(geom, prec)
    /\ res # geom

\* C2: rounding is idempotent: rounding the rounded geometry again with the
\* same precision gives the same geometry, coordinate for coordinate.
RoundingIdempotent ==
    op = "rounded2" => res2 = res

\* a second rounding of a geometry the first rounding changed
RoundingIdempotentWitness ==
    op = "rounded2" /\ res # geom /\ geom.tag = "Polygon"

\* the shape of a geometry: its tag, the number of vertices of each of its
\* rings or lines in order, and the shapes of its members in order
ShapeOfSingle(g) ==
    [tag |-> g.tag,
     sizes |-> [r \in DOMAIN g.coords |-> Len(g.coords[r])]]

ShapeOfPart(g) ==
    [tag |-> g.tag,
     sizes |-> [r \in DOMAIN g.coords |-> Len(g.coords[r])],
     members |-> [j \in DOMAIN g.geoms |-> ShapeOfSingle(g.geoms[j])]]

ShapeOf(g) ==
    [tag |-> g.tag,
     sizes |-> [r \in DOMAIN g.coords |-> Len(g.coords[r])],
     members |-> [i \in DOMAIN g.geoms |-> ShapeOfPart(g.geoms[i])]]

\* C4: fixing the orientation is idempotent: fix_cw_to_ccw applied to its own
\* result returns it ring for ring and vertex for vertex, in the same order.
FixIdempotent ==
    op = "fixed2" => res2 = res

\* a second fix of a geometry the first fix changed
FixIdempotentWitness ==
    op = "fixed2" /\ res # geom

PolygonsIn(g) ==
    {g.geoms[i] : i \in {k \in DOMAIN g.geoms : g.geoms[k].tag = "Polygon"}}
        \cup UNION {{g.geoms[i].geoms[j] : j \in DOMAIN g.geoms[i].geoms} :
                       i \in {k \in DOMAIN g.geoms :
                                 g.geoms[k].tag = "MultiPolygon"}}

\* C9 (as stated): in the result of fix_cw_to_ccw on a GeometryCollection
\* every Polygon and MultiPolygon member has been fixed (its exterior ring
\* does not run clockwise), and the other members are untouched.
CollectionMembersFixed ==
    (op = "fixed" /\ geom.tag = "GeometryCollection") =>
        /\ \A q \in PolygonsIn(res) : signed_area(exterior(q)) >= 0
        /\ \A i \in DOMAIN geom.geoms :
              geom.geoms[i].tag \notin {"Polygon", "MultiPolygon"}
                  => res.geoms[i] = geom.geoms[i]

\* C9 (amended): fix_cw_to_ccw returns a GeometryCollection as it is, with
\* no report of an error: no member is reoriented, Polygon and MultiPolygon
\* members included.
CollectionUnchanged ==
    (op = "fixed" /\ geom.tag = "GeometryCollection") =>
        res = geom /\ ~raised

\* a collection with a clockwise polygon member has been through the fix
CollectionUnchangedWitness ==
    /\ op = "fixed" /\ geom.tag = "GeometryCollection"
    /\ \E q \in PolygonsIn(geom) : signed_area(exterior(q)) < 0

\* the exterior ring of every polygon of a Polygon or MultiPolygon encloses
\* a signed area other than zero
NonDegenerate(g) ==
    IF g.tag = "Polygon"
    THEN g.coords # << >> /\ signed_area(exterior(g)) # 0
    ELSE /\ g.geoms # << >>
         /\ \A i \in DOMAIN g.geoms :
               /\ g.geoms[i].coords # << >>
               /\ signed_area(exterior(g.geoms[i])) # 0

\* C3: for a Polygon or MultiPolygon whose exterior ring has a signed area
\* other than zero, the audit of a collection holding only the result of
\* fix_cw_to_ccw tallies ccw = 1, cw = 0, other = 0, whatever the winding was.
OrientationPostcondition ==
    (/\ op = "fixed"
     /\ geom.tag \in {"Polygon", "MultiPolygon"}
     /\ NonDegenerate(geom))
        => check_orientation_stats(<<res>>) = [ccw |-> 1, cw |-> 0, other |-> 0]

\* the members of a multipolygon that no other member exceeds in area
LargestMembers(g) ==
    {i \in DOMAIN g.geoms :
        \A j \in DOMAIN g.geoms : area(g.geoms[j]) <= area(g.geoms[i])}

\* C10: the audit counts a MultiPolygon exactly once, by the winding of the
\* exterior ring of its member of largest area: as ccw when that member runs
\* counterclockwise (its signed area is positive) whatever the smaller members
\* do, as cw when it runs clockwise; and after fix_cw_to_ccw the exterior ring
\* of every member is counterclockwise to the audit.  (Stated for members
\* whose exterior rings enclose a signed area other than zero, and where
\* members tie for the largest area, for ties of one winding.)
MultiPolygonAudit ==
    (geom.tag = "MultiPolygon" /\ NonDegenerate(geom)) =>
        /\ (\A i \in LargestMembers(geom) :
                signed_area(exterior(geom.geoms[i])) > 0)
              => check_orientation_stats(<<geom>>) = [ccw |-> 1, cw |-> 0, other |-> 0]
        /\ (\A i \in LargestMembers(geom) :
                signed_area(exterior(geom.geoms[i])) < 0)
              => check_orientation_stats(<<geom>>) = [ccw |-> 0, cw |-> 1, other |-> 0]
        /\ op = "fixed" =>
              \A i \in DOMAIN res.geoms : is_ccw(exterior(res.geoms[i]))

(***************************************************************************)
(* Properties of the Process File handler (Spec).                          *)
(***************************************************************************)
Processing == pc \in {"loaded", "analysed", "rounded", "fixed", "done"}

\* C6: a run changes only the geometry of each record: the collection has the
\* same number of records in the same order, each with its attributes as
\* uploaded, and the same CRS, after the rounding and after the (optional)
\* orientation step, for either value of fix_orientation.
OnlyGeometryChanges ==
    Processing =>
        /\ Len(gdf.records) = Len(upload.records)
        /\ \A i \in DOMAIN gdf.records :
              gdf.records[i].attrs = upload.records[i].attrs
        /\ gdf.crs = upload.crs

\* a finished run without the orientation step over two records with
\* different attributes, one of them without a geometry, that changed a
\* geometry
OnlyGeometryChangesWitness ==
    /\ pc = "done" /\ ~fix_orientation
    /\ Len(upload.records) = 2
    /\ upload.records[1].attrs # upload.records[2].attrs
    /\ \E i \in DOMAIN upload.records : upload.records[i].geometry.tag = "Null"
    /\ \E i \in DOMAIN gdf.records :
          gdf.records[i].geometry # upload.records[i].geometry

Malformed(g) ==
    /\ g.tag = "MultiPolygon"
    /\ \E i \in DOMAIN g.geoms : g.geoms[i].coords = << >>
    /\ \E i \in DOMAIN g.geoms : g.geoms[i].coords # << >>

MalformedRecords(frame) ==
    {i \in DOMAIN frame.records : Malformed(frame.records[i].geometry)}

\* the exterior of the polygon, or of every member, does not run clockwise
Oriented(g) ==
    IF g.tag = "Polygon" THEN signed_area(exterior(g)) >= 0
    ELSE \A i \in DOMAIN g.geoms : signed_area(exterior(g.geoms[i])) >= 0

\* C8: when orienting one record's geometry raises, fix_cw_to_ccw returns
\* that record's geometry unmodified and reports a warning, and the run goes
\* on: every other record is processed (its polygons come out oriented) and
\* the step and the audit after it cover the whole collection, in order.
FailureKeepsBatch ==
    pc \in {"fix_applied", "fix_done"} =>
        /\ Len(gdf.records) = Len(upload.records)
        /\ warnings = Cardinality(MalformedRecords(upload))
        /\ \A i \in DOMAIN upload.records :
              IF i \in MalformedRecords(upload)
              THEN gdf.records[i] = upload.records[i]
              ELSE /\ gdf.records[i].attrs = upload.records[i].attrs
                   /\ gdf.records[i].geometry.tag \in {"Polygon", "MultiPolygon"}
                         => Oriented(gdf.records[i].geometry)
        /\ pc = "fix_done" =>
              new_orientation.ccw + new_orientation.cw + new_orientation.other
                  = Len(upload.records)

\* a finished step in which the first record raised and the clockwise record
\* after it was still reoriented
FailureKeepsBatchWitness ==
    /\ pc = "fix_done" /\ warnings = 1
    /\ Len(upload.records) = 2
    /\ 1 \in MalformedRecords(upload)
    /\ upload.records[2].geometry.tag = "Polygon"
    /\ gdf.records[2].geometry # upload.records[2].geometry

=============================================================================
